---- MODULE Spec2Model ----
(***************************************************************************)
(* Horizon's start-up configuration (cmd/horizon main package): the table  *)
(* of option descriptors configOpts, flag and environment registration in  *)
(* init(), and initConfig(): required-option check, schema-migration gate, *)
(* the table-driven resolvers writing c, the hand-written validation and   *)
(* the assembly of config.                                                 *)
(*                                                                         *)
(* Text (a flag's value, an environment variable's value, a string field)  *)
(* is a sequence of one-character strings, so that parsing and formatting  *)
(* are computed.  A nil pointer is <<>> and a pointer to v is <<v>>; the   *)
(* same encoding serves for "absent"/"present" flags and variables.        *)
(***************************************************************************)
EXTENDS Integers, Sequences, FiniteSets, TLC

\* ------------------------------------------------------------------ bounds

\* How many changes are made to the baseline situation (pass a flag, drop a
\* flag, export a variable, leave the store behind or ahead of the binary)
\* before horizon is started.
MaxEdits == 2

\* Largest count of pending migrations (each direction) the store may hold.
MaxPending == 1

\* Width of Go's uint in the model.  The build targets have 64-bit uint;
\* the conversion uint(n) is n modulo 2^width at any width.
UintBits == 16

\* ------------------------------------------------------------------- text

Digits == {"0", "1", "2", "3", "4", "5", "6", "7", "8", "9"}

LowerLetters ==
    {"a", "b", "c", "d", "e", "f", "g", "h", "i", "j", "k", "l", "m",
     "n", "o", "p", "q", "r", "s", "t", "u", "v", "w", "x", "y", "z"}

UpperLetters ==
    {"A", "B", "C", "D", "E", "F", "G", "H", "I", "J", "K", "L", "M",
     "N", "O", "P", "Q", "R", "S", "T", "U", "V", "W", "X", "Y", "Z"}

DigitVal ==
    "0" :> 0 @@ "1" :> 1 @@ "2" :> 2 @@ "3" :> 3 @@ "4" :> 4 @@
    "5" :> 5 @@ "6" :> 6 @@ "7" :> 7 @@ "8" :> 8 @@ "9" :> 9

DigitChar == <<"0", "1", "2", "3", "4", "5", "6", "7", "8", "9">>

LowerOf ==
    "A" :> "a" @@ "B" :> "b" @@ "C" :> "c" @@ "D" :> "d" @@ "E" :> "e" @@
    "F" :> "f" @@ "G" :> "g" @@ "H" :> "h" @@ "I" :> "i" @@ "J" :> "j" @@
    "K" :> "k" @@ "L" :> "l" @@ "M" :> "m" @@ "N" :> "n" @@ "O" :> "o" @@
    "P" :> "p" @@ "Q" :> "q" @@ "R" :> "r" @@ "S" :> "s" @@ "T" :> "t" @@
    "U" :> "u" @@ "V" :> "v" @@ "W" :> "w" @@ "X" :> "x" @@ "Y" :> "y" @@
    "Z" :> "z"

\* strings.ToLower, as logrus.ParseLevel applies it to its argument.
ToLower(t) ==
    [i \in 1..Len(t) |-> IF t[i] \in UpperLetters THEN LowerOf[t[i]] ELSE t[i]]

RECURSIVE DigitsValue(_)
DigitsValue(t) ==
    IF t = <<>> THEN 0
    ELSE DigitsValue(SubSeq(t, 1, Len(t) - 1)) * 10 + DigitVal[t[Len(t)]]

IsDigits(t) == Len(t) > 0 /\ \A i \in 1..Len(t) : t[i] \in Digits

\* strconv.ParseInt on decimal text with an optional sign, as cast.ToInt
\* calls it: [ok, n].  Text that is no signed decimal number is an error.
ParseInt(t) ==
    IF t # <<>> /\ t[1] \in {"-", "+"}
    THEN IF IsDigits(Tail(t))
         THEN [ok |-> TRUE,
               n  |-> IF t[1] = "-" THEN 0 - DigitsValue(Tail(t))
                      ELSE DigitsValue(Tail(t))]
         ELSE [ok |-> FALSE, n |-> 0]
    ELSE IF IsDigits(t) THEN [ok |-> TRUE, n |-> DigitsValue(t)]
         ELSE [ok |-> FALSE, n |-> 0]

RECURSIVE FormatNat(_)
FormatNat(n) ==
    IF n < 10 THEN <<DigitChar[n + 1]>>
    ELSE FormatNat(n \div 10) \o <<DigitChar[(n % 10) + 1]>>

\* strconv.Itoa / FormatInt in base 10: what a numeric flag's String() and
\* cast.ToString of an int give.
FormatInt(n) == IF n < 0 THEN <<"-">> \o FormatNat(0 - n) ELSE FormatNat(n)

T_true == <<"t", "r", "u", "e">>
T_false == <<"f", "a", "l", "s", "e">>

\* strconv.ParseBool: [ok, b].
ParseBool(t) ==
    IF t \in {<<"1">>, <<"t">>, <<"T">>, <<"T", "R", "U", "E">>, T_true,
              <<"T", "r", "u", "e">>}
    THEN [ok |-> TRUE, b |-> TRUE]
    ELSE IF t \in {<<"0">>, <<"f">>, <<"F">>, <<"F", "A", "L", "S", "E">>,
                   T_false, <<"F", "a", "l", "s", "e">>}
         THEN [ok |-> TRUE, b |-> FALSE]
         ELSE [ok |-> FALSE, b |-> FALSE]

FormatBool(b) == IF b THEN T_true ELSE T_false

T_info == <<"i", "n", "f", "o">>
T_debug == <<"d", "e", "b", "u", "g">>
T_loud == <<"l", "o", "u", "d">>
T_horizon == <<"h", "o", "r", "i", "z", "o", "n">>
T_y == <<"y">>
T_logpath == <<"h", ".", "l", "o", "g">>
T_httpfb == <<"h", "t", "t", "p", ":", "/", "/", "f", "b">>
T_colon == <<":", "f", "b">>

\* network.TestNetworkPassphrase
TestNetworkPassphrase ==
    <<"T", "e", "s", "t", " ", "S", "D", "F", " ", "N", "e", "t", "w", "o",
      "r", "k", " ", ";", " ", "S", "e", "p", "t", "e", "m", "b", "e", "r",
      " ", "2", "0", "1", "5">>

\* logrus.ParseLevel: the level's number (PanicLevel = 0 ... DebugLevel = 5),
\* or an error for any other word.
ParseLevel(t) ==
    LET l == ToLower(t) IN
    CASE l = <<"p", "a", "n", "i", "c">> -> [ok |-> TRUE, level |-> 0]
      [] l = <<"f", "a", "t", "a", "l">> -> [ok |-> TRUE, level |-> 1]
      [] l = <<"e", "r", "r", "o", "r">> -> [ok |-> TRUE, level |-> 2]
      [] l \in {<<"w", "a", "r", "n">>, <<"w", "a", "r", "n", "i", "n", "g">>}
                                         -> [ok |-> TRUE, level |-> 3]
      [] l = T_info                      -> [ok |-> TRUE, level |-> 4]
      [] l = T_debug                     -> [ok |-> TRUE, level |-> 5]
      [] OTHER                           -> [ok |-> FALSE, level |-> 0]

\* net/url getScheme: scan for the "scheme:" prefix.  err is "missing
\* protocol scheme" (the text starts with a colon).
RECURSIVE getScheme(_, _)
getScheme(t, i) ==
    IF i > Len(t) THEN [err |-> FALSE, scheme |-> <<>>, rest |-> t]
    ELSE IF t[i] \in LowerLetters \cup UpperLetters THEN getScheme(t, i + 1)
    ELSE IF t[i] \in Digits \cup {"+", "-", "."}
         THEN IF i = 1 THEN [err |-> FALSE, scheme |-> <<>>, rest |-> t]
              ELSE getScheme(t, i + 1)
    ELSE IF t[i] = ":"
         THEN IF i = 1 THEN [err |-> TRUE, scheme |-> <<>>, rest |-> t]
              ELSE [err |-> FALSE, scheme |-> SubSeq(t, 1, i - 1),
                    rest |-> SubSeq(t, i + 1, Len(t))]
    ELSE [err |-> FALSE, scheme |-> <<>>, rest |-> t]

\* The first path segment of rest (up to the first "/") holds a colon.
FirstSegmentHasColon(rest) ==
    \E i \in 1..Len(rest) :
        /\ rest[i] = ":"
        /\ \A j \in 1..(i - 1) : rest[j] # "/"

\* url.Parse for text without "#", "?", "%" or control characters:
\* [ok, url], url = [Scheme, Rest] with the scheme lower-cased and Rest the
\* text after "scheme:".  It fails on a missing scheme before ":" and on a
\* scheme-less relative path whose first segment holds a colon.
urlParse(t) ==
    LET s == getScheme(t, 1) IN
    IF s.err THEN [ok |-> FALSE, url |-> [Scheme |-> <<>>, Rest |-> <<>>]]
    ELSE IF /\ s.scheme = <<>>
            /\ s.rest # <<>>
            /\ s.rest[1] # "/"
            /\ FirstSegmentHasColon(s.rest)
         THEN [ok |-> FALSE, url |-> [Scheme |-> <<>>, Rest |-> <<>>]]
         ELSE [ok |-> TRUE,
               url |-> [Scheme |-> ToLower(s.scheme), Rest |-> s.rest]]

\* uint(n) for an int n: reduction modulo 2^UintBits.
ToUint(n) == n % (2 ^ UintBits)

\* time.Duration(n) * time.Second, kept in whole seconds.
Seconds(n) == [seconds |-> n]

\* The burst of every rate quota setRateLimit and initConfig build.
MaxBurst == 100

\* throttled.RateQuota{MaxRate: throttled.PerHour(n), MaxBurst: 100}
RateQuota(n) == [MaxRate |-> [count |-> n, per |-> "hour"], MaxBurst |-> MaxBurst]

\* ------------------------------------------------------- descriptor table

Opt(nm, ev, ty, def, req, custom, key) ==
    [name |-> nm, envVar |-> ev, type |-> ty, flagDefault |-> def,
     required |-> req, customSetValue |-> custom, configKey |-> key]

\* The table, in source order.  type is the Go type of flagDefault, which
\* setFlag and setSimpleValue switch on; customSetValue is "nil" when the
\* descriptor names no function; configKey names the field of c it points to.
configOpts ==
    << Opt("db-url", "DATABASE_URL", "string", <<>>, TRUE, "nil", "DatabaseURL"),
       Opt("stellar-core-db-url", "STELLAR_CORE_DATABASE_URL", "string", <<>>, TRUE, "nil", "StellarCoreDatabaseURL"),
       Opt("stellar-core-url", "", "string", <<>>, TRUE, "nil", "StellarCoreURL"),
       Opt("port", "", "int", 8000, FALSE, "nil", "Port"),
       Opt("max-db-connections", "", "int", 20, FALSE, "nil", "MaxDBConnections"),
       Opt("sse-update-frequency", "", "int", 5, FALSE, "setDuration", "SSEUpdateFrequency"),
       Opt("connection-timeout", "", "int", 55, FALSE, "setDuration", "ConnectionTimeout"),
       Opt("per-hour-rate-limit", "", "int", 3600, FALSE, "setRateLimit", "RateLimit"),
       Opt("rate-limit-redis-key", "", "string", <<>>, FALSE, "nil", "RateLimitRedisKey"),
       Opt("redis-url", "", "string", <<>>, FALSE, "nil", "RedisURL"),
       Opt("friendbot-url", "", "string", <<>>, FALSE, "setURL", "FriendbotURL"),
       Opt("log-level", "", "string", T_info, FALSE, "setLogLevel", "LogLevel"),
       Opt("log-file", "", "string", <<>>, FALSE, "setLogFile", "LogFile"),
       Opt("max-path-length", "", "uint", 4, FALSE, "nil", "MaxPathLength"),
       Opt("network-passphrase", "", "string", TestNetworkPassphrase, TRUE, "nil", "NetworkPassphrase"),
       Opt("sentry-dsn", "", "string", <<>>, FALSE, "nil", "SentryDSN"),
       Opt("loggly-token", "", "string", <<>>, FALSE, "nil", "LogglyToken"),
       Opt("loggly-tag", "", "string", T_horizon, FALSE, "nil", "LogglyTag"),
       Opt("tls-cert", "", "string", <<>>, FALSE, "incrementTLSFlag", "TLSCert"),
       Opt("tls-key", "", "string", <<>>, FALSE, "incrementTLSFlag", "TLSKey"),
       Opt("ingest", "", "bool", FALSE, FALSE, "nil", "Ingest"),
       Opt("history-retention-count", "", "uint", 0, FALSE, "nil", "HistoryRetentionCount"),
       Opt("history-stale-threshold", "", "uint", 0, FALSE, "nil", "StaleThreshold"),
       Opt("skip-cursor-update", "", "bool", FALSE, FALSE, "nil", "SkipCursorUpdate"),
       Opt("enable-asset-stats", "", "bool", FALSE, FALSE, "nil", "EnableAssetStats") >>

OptIndex == 1..Len(configOpts)

Names == {configOpts[i].name : i \in OptIndex}

DescOf == [k \in Names |-> configOpts[CHOOSE i \in OptIndex : configOpts[i].name = k]]

\* The descriptor named k.
Desc(k) == DescOf[k]

\* strutils.KebabToConstantCase on the names of the table: upper case, with
\* "_" for "-".
KebabToConstantCase(k) ==
    CASE k = "db-url" -> "DB_URL"
      [] k = "stellar-core-db-url" -> "STELLAR_CORE_DB_URL"
      [] k = "stellar-core-url" -> "STELLAR_CORE_URL"
      [] k = "port" -> "PORT"
      [] k = "max-db-connections" -> "MAX_DB_CONNECTIONS"
      [] k = "sse-update-frequency" -> "SSE_UPDATE_FREQUENCY"
      [] k = "connection-timeout" -> "CONNECTION_TIMEOUT"
      [] k = "per-hour-rate-limit" -> "PER_HOUR_RATE_LIMIT"
      [] k = "rate-limit-redis-key" -> "RATE_LIMIT_REDIS_KEY"
      [] k = "redis-url" -> "REDIS_URL"
      [] k = "friendbot-url" -> "FRIENDBOT_URL"
      [] k = "log-level" -> "LOG_LEVEL"
      [] k = "log-file" -> "LOG_FILE"
      [] k = "max-path-length" -> "MAX_PATH_LENGTH"
      [] k = "network-passphrase" -> "NETWORK_PASSPHRASE"
      [] k = "sentry-dsn" -> "SENTRY_DSN"
      [] k = "loggly-token" -> "LOGGLY_TOKEN"
      [] k = "loggly-tag" -> "LOGGLY_TAG"
      [] k = "tls-cert" -> "TLS_CERT"
      [] k = "tls-key" -> "TLS_KEY"
      [] k = "ingest" -> "INGEST"
      [] k = "history-retention-count" -> "HISTORY_RETENTION_COUNT"
      [] k = "history-stale-threshold" -> "HISTORY_STALE_THRESHOLD"
      [] k = "skip-cursor-update" -> "SKIP_CURSOR_UPDATE"
      [] k = "enable-asset-stats" -> "ENABLE_ASSET_STATS"

\* The descriptor's environment alias: the declared envVar, or the one
\* derived from the name.
EnvAlias(co) == IF co.envVar = "" THEN KebabToConstantCase(co.name) ELSE co.envVar

EnvNames == {EnvAlias(configOpts[i]) : i \in OptIndex}

\* The Go type of each field of horizon.Config, as the composite literal
\* that builds config assigns them.
ConfigFieldType ==
    [DatabaseURL |-> "string", StellarCoreDatabaseURL |-> "string",
     StellarCoreURL |-> "string", Port |-> "int", MaxDBConnections |-> "int",
     SSEUpdateFrequency |-> "time.Duration", ConnectionTimeout |-> "time.Duration",
     RateLimit |-> "*throttled.RateQuota", RateLimitRedisKey |-> "string",
     RedisURL |-> "string", FriendbotURL |-> "*url.URL",
     LogLevel |-> "logrus.Level", LogFile |-> "string", MaxPathLength |-> "uint",
     NetworkPassphrase |-> "string", SentryDSN |-> "string",
     LogglyToken |-> "string", LogglyTag |-> "string", TLSCert |-> "string",
     TLSKey |-> "string", Ingest |-> "bool", HistoryRetentionCount |-> "uint",
     StaleThreshold |-> "uint", SkipCursorUpdate |-> "bool",
     EnableAssetStats |-> "bool"]

\* The zero value of horizon.Config: what the package variables c and
\* config hold when the process starts.
ZeroConfig ==
    [DatabaseURL |-> <<>>, StellarCoreDatabaseURL |-> <<>>,
     StellarCoreURL |-> <<>>, Port |-> 0, MaxDBConnections |-> 0,
     SSEUpdateFrequency |-> Seconds(0), ConnectionTimeout |-> Seconds(0),
     RateLimit |-> <<>>, RateLimitRedisKey |-> <<>>,
     RedisURL |-> <<>>, FriendbotURL |-> <<>>,
     LogLevel |-> 0, LogFile |-> <<>>, MaxPathLength |-> 0,
     NetworkPassphrase |-> <<>>, SentryDSN |-> <<>>,
     LogglyToken |-> <<>>, LogglyTag |-> <<>>, TLSCert |-> <<>>,
     TLSKey |-> <<>>, Ingest |-> FALSE, HistoryRetentionCount |-> 0,
     StaleThreshold |-> 0, SkipCursorUpdate |-> FALSE,
     EnableAssetStats |-> FALSE]

\* ------------------------------------------------------------------ state

VARIABLES
    pc,           \* where the process is
    edits,        \* changes made to the invocation so far
    flags,        \* command line: name -> <<>> or <<text>>
    env,          \* environment: variable -> <<>> or <<text>>
    pendingUp,    \* migrations the store lacks, as the process finds it
    pendingDown,  \* migrations the store has beyond this binary's
    envVar,       \* configOpts[i].envVar, by name
    bindings,     \* viper's environment bindings: name -> <<>> or <<variable>>
    defaults,     \* viper.SetDefault: name -> <<>> or <<n>>
    pflags,       \* names of the flags bound to viper
    c,            \* package variable c
    config,       \* package variable config
    tlsProvided,  \* package variable tlsProvided
    logger,       \* log.DefaultLogger: Level and Logger.Out, <<>> while untouched
    locals,       \* initConfig's ll, lf, cert, key, friendbotURL
    resolved,     \* descriptors whose setValue has been entered
    diag,         \* what the process wrote when it terminated
    exitCode      \* its exit status, once pc = "exited"

vars ==
    <<pc, edits, flags, env, pendingUp, pendingDown, envVar, bindings,
      defaults, pflags, c, config, tlsProvided, logger, locals, resolved,
      diag, exitCode>>

NoDiag ==
    [kind |-> "none", at |-> "", name |-> "", envVar |-> "", text |-> <<>>,
     count |-> 0]

ZeroLocals ==
    [ll |-> 0, lf |-> <<>>, cert |-> <<>>, key |-> <<>>, friendbotURL |-> <<>>]

\* The invocation the operator starts from: the three options that have
\* no default are passed as flags.
BaselineFlags == {"db-url", "stellar-core-db-url", "stellar-core-url"}

Init ==
    /\ pc = "shell"
    /\ edits = 0
    /\ flags = [k \in Names |-> IF k \in BaselineFlags THEN <<T_y>> ELSE <<>>]
    /\ env = [e \in EnvNames |-> <<>>]
    /\ pendingUp = 0
    /\ pendingDown = 0
    /\ envVar = [k \in Names |-> Desc(k).envVar]
    /\ bindings = [k \in Names |-> <<>>]
    /\ defaults = [k \in Names |-> <<>>]
    /\ pflags = {}
    /\ c = ZeroConfig
    /\ config = ZeroConfig
    /\ tlsProvided = 0
    /\ logger = [Level |-> <<>>, Out |-> <<>>]
    /\ locals = ZeroLocals
    /\ resolved = 0
    /\ diag = NoDiag
    /\ exitCode = 0

\* ------------------------------------------------------------------ viper

StrV(s) == [t |-> "string", s |-> s, n |-> 0, b |-> FALSE]
IntV(n) == [t |-> "int", s |-> <<>>, n |-> n, b |-> FALSE]
BoolV(b) == [t |-> "bool", s |-> <<>>, n |-> 0, b |-> b]
NilV == [t |-> "nil", s |-> <<>>, n |-> 0, b |-> FALSE]

castToString(v) ==
    CASE v.t = "string" -> v.s
      [] v.t = "int" -> FormatInt(v.n)
      [] v.t = "bool" -> FormatBool(v.b)
      [] OTHER -> <<>>

castToInt(v) ==
    CASE v.t = "int" -> v.n
      [] v.t = "string" -> ParseInt(v.s).n
      [] v.t = "bool" -> IF v.b THEN 1 ELSE 0
      [] OTHER -> 0

castToBool(v) ==
    CASE v.t = "bool" -> v.b
      [] v.t = "string" -> ParseBool(v.s).b
      [] v.t = "int" -> v.n # 0
      [] OTHER -> FALSE

\* A flag's value as viper reads it: int and bool flags are converted,
\* every other flag type (string, uint) stays the flag's text.
flagValue(type, text) ==
    CASE type = "int" -> IntV(castToInt(StrV(text)))
      [] type = "bool" -> BoolV(castToBool(StrV(text)))
      [] OTHER -> StrV(text)

\* The text pflag shows for a flag's default.
defaultText(co) ==
    CASE co.type \in {"int", "uint"} -> FormatInt(co.flagDefault)
      [] co.type = "bool" -> FormatBool(co.flagDefault)
      [] OTHER -> co.flagDefault

\* viper's lookup order: a flag set on the command line, a bound and
\* non-empty environment variable, a default given to SetDefault, the
\* flag's own default.
find(k) ==
    IF k \in pflags /\ flags[k] # <<>>
    THEN flagValue(Desc(k).type, flags[k][1])
    ELSE IF bindings[k] # <<>> /\ env[bindings[k][1]] \notin {<<>>, << <<>> >>}
    THEN StrV(env[bindings[k][1]][1])
    ELSE IF defaults[k] # <<>>
    THEN IntV(defaults[k][1])
    ELSE IF k \in pflags
    THEN flagValue(Desc(k).type, defaultText(Desc(k)))
    ELSE NilV

GetString(k) == castToString(find(k))
GetInt(k) == castToInt(find(k))
GetBool(k) == castToBool(find(k))

\* ----------------------------------------------- the operator's invocation

\* Values tried for a flag: text the flag's type accepts.
FlagSamples(k) ==
    LET co == Desc(k) IN
    CASE co.customSetValue = "setURL" -> {T_httpfb, T_colon}
      [] co.customSetValue = "setLogLevel" -> {T_debug, T_loud}
      [] co.customSetValue = "setLogFile" -> {T_logpath}
      [] co.customSetValue = "setRateLimit" -> {<<"0">>, <<"7">>}
      [] k = "network-passphrase" -> {<<>>, T_y}
      [] co.type = "string" -> {T_y}
      [] co.type = "bool" -> {T_true}
      [] OTHER -> {<<"7">>}

\* Values tried for an environment variable: any text.
EnvSamples(k) ==
    LET co == Desc(k) IN
    CASE co.customSetValue = "setURL" -> {T_httpfb}
      [] co.customSetValue = "setLogLevel" -> {T_debug}
      [] co.customSetValue = "setLogFile" -> {T_logpath}
      [] co.type = "string" -> {T_y}
      [] co.type = "bool" -> {T_true}
      [] co.type = "uint" -> {<<"7">>, <<"-", "1">>}
      [] OTHER -> {<<"7">>}

PassFlag(k, t) ==
    /\ pc = "shell"
    /\ edits < MaxEdits
    /\ flags' = [flags EXCEPT ![k] = <<t>>]
    /\ edits' = edits + 1
    /\ UNCHANGED <<pc, env, pendingUp, pendingDown, envVar, bindings, defaults,
                   pflags, c, config, tlsProvided, logger, locals, resolved,
                   diag, exitCode>>

DropFlag(k) ==
    /\ pc = "shell"
    /\ edits < MaxEdits
    /\ flags[k] # <<>>
    /\ flags' = [flags EXCEPT ![k] = <<>>]
    /\ edits' = edits + 1
    /\ UNCHANGED <<pc, env, pendingUp, pendingDown, envVar, bindings, defaults,
                   pflags, c, config, tlsProvided, logger, locals, resolved,
                   diag, exitCode>>

ExportEnv(k, t) ==
    /\ pc = "shell"
    /\ edits < MaxEdits
    /\ env' = [env EXCEPT ![EnvAlias(Desc(k))] = <<t>>]
    /\ edits' = edits + 1
    /\ UNCHANGED <<pc, flags, pendingUp, pendingDown, envVar, bindings, defaults,
                   pflags, c, config, tlsProvided, logger, locals, resolved,
                   diag, exitCode>>

\* The store horizon will open lacks n of the migrations this binary knows:
\* what schema.GetMigrationsUp will report.
StoreBehind(n) ==
    /\ pc = "shell"
    /\ edits < MaxEdits
    /\ pendingUp' = n
    /\ edits' = edits + 1
    /\ UNCHANGED <<pc, flags, env, pendingDown, envVar, bindings, defaults,
                   pflags, c, config, tlsProvided, logger, locals, resolved,
                   diag, exitCode>>

\* The store holds n migrations this binary does not know: what
\* schema.GetNumMigrationsDown will report.
StoreAhead(n) ==
    /\ pc = "shell"
    /\ edits < MaxEdits
    /\ pendingDown' = n
    /\ edits' = edits + 1
    /\ UNCHANGED <<pc, flags, env, pendingUp, envVar, bindings, defaults,
                   pflags, c, config, tlsProvided, logger, locals, resolved,
                   diag, exitCode>>

\* ----------------------------------------------------------------- init()

\* Whether init() calls viper.BindEnv for a descriptor whose envVar field
\* holds e when the loop reaches it: the call stands inside the branch that
\* derives a missing envVar.
bindsEnv(e) == e = ""

\* init(): the two viper defaults, then for each descriptor the derived
\* envVar with its binding, and its flag; all flags are bound to viper.
\* init() runs as the process starts.
init ==
    /\ pc = "shell"
    /\ pc' = "main"
    /\ defaults' = [k \in Names |->
                      CASE k = "port" -> <<8000>>
                        [] k = "history-retention-count" -> <<0>>
                        [] OTHER -> <<>>]
    /\ envVar' = [k \in Names |->
                    IF envVar[k] = "" THEN KebabToConstantCase(k) ELSE envVar[k]]
    /\ bindings' = [k \in Names |->
                      IF bindsEnv(envVar[k]) THEN <<envVar'[k]>> ELSE bindings[k]]
    /\ pflags' = Names
    /\ UNCHANGED <<edits, flags, env, pendingUp, pendingDown, c, config,
                   tlsProvided, logger, locals, resolved, diag, exitCode>>

initConfigOrder_gateFirst ==
    <<"migrationsUp", "migrationsDown", "require", "setValues", "logLevel",
      "validateTLS", "logFile", "tlsPair", "friendbotURL", "assemble", "dump">>

\* The statements of initConfig in the order they stand in its body.
initConfigOrder ==
    <<"require", "migrationsUp", "migrationsDown", "setValues", "logLevel",
      "validateTLS", "logFile", "tlsPair", "friendbotURL", "assemble", "dump">>

\* The statement after statement p.
After(p) ==
    initConfigOrder[(CHOOSE i \in 1..Len(initConfigOrder) :
                        initConfigOrder[i] = p) + 1]

\* main(): rootCmd.Execute() parses the command line and calls Run, which
\* calls initApp, which calls initConfig.
main ==
    /\ pc = "main"
    /\ pc' = initConfigOrder[1]
    /\ UNCHANGED <<edits, flags, env, pendingUp, pendingDown, envVar, bindings,
                   defaults, pflags, c, config, tlsProvided, logger, locals,
                   resolved, diag, exitCode>>

\* ------------------------------------------------------------- termination

\* A diagnostic: its kind, and the option, variable, text or count it names.
\* "at" is filled in with the place of the process where it was written.
Diag(kind, name, ev, text, count) ==
    [kind |-> kind, at |-> "", name |-> name, envVar |-> ev, text |-> text,
     count |-> count]

\* stdLog.Fatal, stdLog.Fatalf and os.Exit(1) end the process with status 1;
\* a run-time panic ends it with status 2.
ExitStatus(kind) == IF kind = "panic" THEN 2 ELSE 1

\* ------------------------------------------------------------- resolvers
\* A resolver maps the record st = [c, tlsProvided, logger, diag] to the
\* one after it; st.diag.kind # "none" once the process has terminated.

Store(st, field, v) == [st EXCEPT !.c = [@ EXCEPT ![field] = v]]

Die(st, d) == [st EXCEPT !.diag = d]

\* The type assertion co.configKey.(*T): configKey holds a pointer to the
\* field, so the assertion holds when the field's type is T and panics
\* otherwise.
KeyIs(co, T) == ConfigFieldType[co.configKey] = T

Panic(st, co) == Die(st, Diag("panic", co.name, "", <<>>, 0))

setSimpleValue(co, st) ==
    CASE co.type = "string" ->
            IF KeyIs(co, "string") THEN Store(st, co.configKey, GetString(co.name))
            ELSE Panic(st, co)
      [] co.type = "int" ->
            IF KeyIs(co, "int") THEN Store(st, co.configKey, GetInt(co.name))
            ELSE Panic(st, co)
      [] co.type = "bool" ->
            IF KeyIs(co, "bool") THEN Store(st, co.configKey, GetBool(co.name))
            ELSE Panic(st, co)
      [] co.type = "uint" ->
            IF KeyIs(co, "uint")
            THEN Store(st, co.configKey, ToUint(GetInt(co.name)))
            ELSE Panic(st, co)
      [] OTHER -> st

setDuration_millis(co, st) ==
    IF KeyIs(co, "time.Duration")
    THEN Store(st, co.configKey, Seconds(GetInt(co.name) * 1000))
    ELSE Panic(st, co)

setDuration(co, st) ==
    IF KeyIs(co, "time.Duration")
    THEN Store(st, co.configKey, Seconds(GetInt(co.name)))
    ELSE Panic(st, co)

setURL(co, st) ==
    LET urlString == GetString(co.name)
        parsed == urlParse(urlString)
    IN  IF urlString # <<>>
        THEN IF ~parsed.ok
             THEN Die(st, Diag("url", co.name, "", urlString, 0))
             ELSE IF KeyIs(co, "url.URL")
                  THEN Store(st, co.configKey, parsed.url)
                  ELSE Panic(st, co)
        ELSE st

setLogLevel(co, st) ==
    LET ll == ParseLevel(GetString(co.name)) IN
    IF ~ll.ok
    THEN Die(st, Diag("log-level", co.name, "", GetString(co.name), 0))
    ELSE IF KeyIs(co, "logrus.Level")
         THEN Store([st EXCEPT !.logger.Level = <<ll.level>>],
                    co.configKey, ll.level)
         ELSE Panic([st EXCEPT !.logger.Level = <<ll.level>>], co)

\* opens: whether os.OpenFile succeeds.
setLogFile(co, st, opens) ==
    LET lf == GetString("log-file") IN
    IF lf # <<>>
    THEN IF opens
         THEN IF KeyIs(co, "string")
              THEN Store([st EXCEPT !.logger.Out = <<lf>>], co.configKey, lf)
              ELSE Panic([st EXCEPT !.logger.Out = <<lf>>], co)
         ELSE Die(st, Diag("log-file", co.name, "", <<>>, 0))
    ELSE st

setRateLimit_burstIsRate(co, st) ==
    LET perHourRateLimit == GetInt(co.name) IN
    IF perHourRateLimit # 0
    THEN IF KeyIs(co, "*throttled.RateQuota")
         THEN Store(st, co.configKey,
                    <<[RateQuota(perHourRateLimit) EXCEPT !.MaxBurst = perHourRateLimit]>>)
         ELSE Panic(st, co)
    ELSE st

setRateLimit(co, st) ==
    LET perHourRateLimit == GetInt(co.name) IN
    IF perHourRateLimit # 0
    THEN IF KeyIs(co, "*throttled.RateQuota")
         THEN Store(st, co.configKey, <<RateQuota(perHourRateLimit)>>)
         ELSE Panic(st, co)
    ELSE st

incrementTLSFlag(co, st) ==
    LET tls == GetString(co.name) IN
    IF tls # <<>>
    THEN IF KeyIs(co, "string")
         THEN Store([st EXCEPT !.tlsProvided = @ + 1], co.configKey, tls)
         ELSE Panic([st EXCEPT !.tlsProvided = @ + 1], co)
    ELSE st

setValue(co, st, opens) ==
    CASE co.customSetValue = "setDuration" -> setDuration(co, st)
      [] co.customSetValue = "setURL" -> setURL(co, st)
      [] co.customSetValue = "setLogLevel" -> setLogLevel(co, st)
      [] co.customSetValue = "setLogFile" -> setLogFile(co, st, opens)
      [] co.customSetValue = "setRateLimit" -> setRateLimit(co, st)
      [] co.customSetValue = "incrementTLSFlag" -> incrementTLSFlag(co, st)
      [] OTHER -> setSimpleValue(co, st)

\* The loop over configOpts from descriptor i on: it stops where a resolver
\* terminates the process.  The result records how many were entered.
RECURSIVE setValuesFrom(_, _, _)
setValuesFrom(i, st, opens) ==
    IF i > Len(configOpts) \/ st.diag.kind # "none"
    THEN st
    ELSE CHOOSE r \in {setValuesFrom(i + 1, s, opens) :
                         s \in {setValue(configOpts[i],
                                         [st EXCEPT !.resolved = i], opens)}} :
             TRUE

\* ------------------------------------------------------------ initConfig

RestOfProcess ==
    <<edits, flags, env, pendingUp, pendingDown, envVar, bindings, defaults,
      pflags>>

Exit(d) ==
    /\ pc' = "exited"
    /\ diag' = [d EXCEPT !.at = pc]
    /\ exitCode' = ExitStatus(d.kind)

require_any(co) == GetString(co.name) = <<>>

\* configOption.require: TRUE when it terminates the process.
require(co) == co.required /\ GetString(co.name) = <<>>

\* The first loop: every descriptor's require(), in table order.
initConfig_require ==
    /\ pc = "require"
    /\ LET failing == {i \in OptIndex : require(configOpts[i])} IN
       IF failing # {}
       THEN LET i == CHOOSE j \in failing : \A h \in failing : j <= h
                co == configOpts[i]
            IN  Exit(Diag("missing-required", co.name, envVar[co.name], <<>>, 0))
       ELSE /\ pc' = After("require")
            /\ UNCHANGED <<diag, exitCode>>
    /\ UNCHANGED RestOfProcess
    /\ UNCHANGED <<c, config, tlsProvided, logger, locals, resolved>>

\* len(schema.GetMigrationsUp(dbUrl)): the migrations the store lacks.
GetMigrationsUp(dbUrl) == pendingUp

\* schema.GetNumMigrationsDown(dbUrl): the migrations the store has beyond
\* those this binary knows.
GetNumMigrationsDown(dbUrl) == pendingDown

\* The conditions under which initConfig exits on the two counts.
upRequired(n) == n > 0

downRequired_offByOne(n) == n > 1

downRequired(n) == n > 0

initConfig_migrationsUp ==
    /\ pc = "migrationsUp"
    /\ LET n == GetMigrationsUp(GetString("db-url")) IN
       IF upRequired(n)
       THEN Exit(Diag("schema-up", "", "", <<>>, n))
       ELSE /\ pc' = After("migrationsUp")
            /\ UNCHANGED <<diag, exitCode>>
    /\ UNCHANGED RestOfProcess
    /\ UNCHANGED <<c, config, tlsProvided, logger, locals, resolved>>

initConfig_migrationsDown ==
    /\ pc = "migrationsDown"
    /\ LET nMigrationsDown == GetNumMigrationsDown(GetString("db-url")) IN
       IF downRequired(nMigrationsDown)
       THEN Exit(Diag("schema-down", "", "", <<>>, nMigrationsDown))
       ELSE /\ pc' = After("migrationsDown")
            /\ UNCHANGED <<diag, exitCode>>
    /\ UNCHANGED RestOfProcess
    /\ UNCHANGED <<c, config, tlsProvided, logger, locals, resolved>>

\* The second loop: every descriptor's setValue(), in table order.
initConfig_setValues ==
    /\ pc = "setValues"
    /\ \E opens \in BOOLEAN :
         \E st \in {setValuesFrom(1, [c |-> c, tlsProvided |-> tlsProvided,
                                      logger |-> logger, diag |-> NoDiag,
                                      resolved |-> 0], opens)} :
             /\ c' = st.c
             /\ tlsProvided' = st.tlsProvided
             /\ logger' = st.logger
             /\ resolved' = st.resolved
             /\ IF st.diag.kind # "none"
                THEN Exit(st.diag)
                ELSE /\ pc' = After("setValues")
                     /\ UNCHANGED <<diag, exitCode>>
    /\ UNCHANGED RestOfProcess
    /\ UNCHANGED <<config, locals>>

\* "Validate log level": parse log-level again and set the logger's level.
initConfig_logLevel ==
    /\ pc = "logLevel"
    /\ LET ll == ParseLevel(GetString("log-level")) IN
       IF ~ll.ok
       THEN /\ Exit(Diag("log-level", "log-level", "", GetString("log-level"), 0))
            /\ UNCHANGED <<logger, locals>>
       ELSE /\ pc' = After("logLevel")
            /\ locals' = [locals EXCEPT !.ll = ll.level]
            /\ logger' = [logger EXCEPT !.Level = <<ll.level>>]
            /\ UNCHANGED <<diag, exitCode>>
    /\ UNCHANGED RestOfProcess
    /\ UNCHANGED <<c, config, tlsProvided, resolved>>

validateTLS_two(n) == n = 2

\* validateTLS: TRUE when it terminates the process.
validateTLS(n) == n = 1

initConfig_validateTLS ==
    /\ pc = "validateTLS"
    /\ IF validateTLS(tlsProvided)
       THEN Exit(Diag("tls-both", "", "", <<>>, tlsProvided))
       ELSE /\ pc' = After("validateTLS")
            /\ UNCHANGED <<diag, exitCode>>
    /\ UNCHANGED RestOfProcess
    /\ UNCHANGED <<c, config, tlsProvided, logger, locals, resolved>>

\* "Write to a log file, if a file name was provided".
initConfig_logFile ==
    /\ pc = "logFile"
    /\ \E opens \in BOOLEAN :
         LET lf == GetString("log-file") IN
         IF lf # <<>> /\ ~opens
         THEN /\ Exit(Diag("log-file", "log-file", "", <<>>, 0))
              /\ locals' = [locals EXCEPT !.lf = lf]
              /\ UNCHANGED logger
         ELSE /\ pc' = After("logFile")
              /\ locals' = [locals EXCEPT !.lf = lf]
              /\ logger' = IF lf # <<>> THEN [logger EXCEPT !.Out = <<lf>>]
                           ELSE logger
              /\ UNCHANGED <<diag, exitCode>>
    /\ UNCHANGED RestOfProcess
    /\ UNCHANGED <<c, config, tlsProvided, resolved>>

\* "Ensure that both a TLS cert and key are provided, if either is".
initConfig_tlsPair ==
    /\ pc = "tlsPair"
    /\ LET cert == GetString("tls-cert")
           key == GetString("tls-key")
       IN  /\ locals' = [locals EXCEPT !.cert = cert, !.key = key]
           /\ IF cert # <<>> /\ key = <<>>
              THEN Exit(Diag("tls-key", "tls-key", "", <<>>, 0))
              ELSE IF cert = <<>> /\ key # <<>>
              THEN Exit(Diag("tls-cert", "tls-cert", "", <<>>, 0))
              ELSE /\ pc' = After("tlsPair")
                   /\ UNCHANGED <<diag, exitCode>>
    /\ UNCHANGED RestOfProcess
    /\ UNCHANGED <<c, config, tlsProvided, logger, resolved>>

\* "Validate the friendbotURL is a URL, if it was provided".
initConfig_friendbotURL ==
    /\ pc = "friendbotURL"
    /\ LET friendbotURLString == GetString("friendbot-url")
           parsed == urlParse(friendbotURLString)
       IN  IF friendbotURLString # <<>> /\ ~parsed.ok
           THEN /\ Exit(Diag("url", "friendbot-url", "", friendbotURLString, 0))
                /\ UNCHANGED locals
           ELSE /\ pc' = After("friendbotURL")
                /\ locals' = [locals EXCEPT !.friendbotURL =
                                IF friendbotURLString # <<>> THEN <<parsed.url>>
                                ELSE <<>>]
                /\ UNCHANGED <<diag, exitCode>>
    /\ UNCHANGED RestOfProcess
    /\ UNCHANGED <<c, config, tlsProvided, logger, resolved>>

initConfig_assemble_staleFromRetention ==
    /\ pc = "assemble"
    /\ LET perHourRateLimit == GetInt("per-hour-rate-limit")
           rateLimit == IF perHourRateLimit # 0
                        THEN <<RateQuota(perHourRateLimit)>> ELSE <<>>
       IN  config' =
             [DatabaseURL |-> GetString("db-url"),
              StellarCoreDatabaseURL |-> GetString("stellar-core-db-url"),
              StellarCoreURL |-> GetString("stellar-core-url"),
              Port |-> GetInt("port"),
              MaxDBConnections |-> GetInt("max-db-connections"),
              SSEUpdateFrequency |-> Seconds(GetInt("sse-update-frequency")),
              ConnectionTimeout |-> Seconds(GetInt("connection-timeout")),
              RateLimit |-> rateLimit,
              RateLimitRedisKey |-> GetString("rate-limit-redis-key"),
              RedisURL |-> GetString("redis-url"),
              FriendbotURL |-> locals.friendbotURL,
              LogLevel |-> locals.ll,
              LogFile |-> locals.lf,
              MaxPathLength |-> ToUint(GetInt("max-path-length")),
              NetworkPassphrase |-> GetString("network-passphrase"),
              SentryDSN |-> GetString("sentry-dsn"),
              LogglyToken |-> GetString("loggly-token"),
              LogglyTag |-> GetString("loggly-tag"),
              TLSCert |-> locals.cert,
              TLSKey |-> locals.key,
              Ingest |-> GetBool("ingest"),
              HistoryRetentionCount |-> ToUint(GetInt("history-retention-count")),
              StaleThreshold |-> ToUint(GetInt("history-retention-count")),
              SkipCursorUpdate |-> GetBool("skip-cursor-update"),
              EnableAssetStats |-> GetBool("enable-asset-stats")]
    /\ pc' = After("assemble")
    /\ UNCHANGED RestOfProcess
    /\ UNCHANGED <<c, tlsProvided, logger, locals, resolved, diag, exitCode>>

\* "Set rate and burst limiting if provided", then config = horizon.Config{...}.
initConfig_assemble ==
    /\ pc = "assemble"
    /\ LET perHourRateLimit == GetInt("per-hour-rate-limit")
           rateLimit == IF perHourRateLimit # 0
                        THEN <<RateQuota(perHourRateLimit)>> ELSE <<>>
       IN  config' =
             [DatabaseURL |-> GetString("db-url"),
              StellarCoreDatabaseURL |-> GetString("stellar-core-db-url"),
              StellarCoreURL |-> GetString("stellar-core-url"),
              Port |-> GetInt("port"),
              MaxDBConnections |-> GetInt("max-db-connections"),
              SSEUpdateFrequency |-> Seconds(GetInt("sse-update-frequency")),
              ConnectionTimeout |-> Seconds(GetInt("connection-timeout")),
              RateLimit |-> rateLimit,
              RateLimitRedisKey |-> GetString("rate-limit-redis-key"),
              RedisURL |-> GetString("redis-url"),
              FriendbotURL |-> locals.friendbotURL,
              LogLevel |-> locals.ll,
              LogFile |-> locals.lf,
              MaxPathLength |-> ToUint(GetInt("max-path-length")),
              NetworkPassphrase |-> GetString("network-passphrase"),
              SentryDSN |-> GetString("sentry-dsn"),
              LogglyToken |-> GetString("loggly-token"),
              LogglyTag |-> GetString("loggly-tag"),
              TLSCert |-> locals.cert,
              TLSKey |-> locals.key,
              Ingest |-> GetBool("ingest"),
              HistoryRetentionCount |-> ToUint(GetInt("history-retention-count")),
              StaleThreshold |-> ToUint(GetInt("history-stale-threshold")),
              SkipCursorUpdate |-> GetBool("skip-cursor-update"),
              EnableAssetStats |-> GetBool("enable-asset-stats")]
    /\ pc' = After("assemble")
    /\ UNCHANGED RestOfProcess
    /\ UNCHANGED <<c, tlsProvided, logger, locals, resolved, diag, exitCode>>

\* "For testing purposes only": the fields of c and config are printed side
\* by side, and stdLog.Fatal("Died here") ends the process.  initConfig has
\* no other way out, so it never returns to initApp.
initConfig_dump ==
    /\ pc = "dump"
    /\ Exit(Diag("died-here", "", "", <<>>, 0))
    /\ UNCHANGED RestOfProcess
    /\ UNCHANGED <<c, config, tlsProvided, logger, locals, resolved>>

\* ---------------------------------------------------------- specification

Next ==
    \/ \E k \in Names : \E t \in FlagSamples(k) : PassFlag(k, t)
    \/ \E k \in Names : DropFlag(k)
    \/ \E k \in Names : \E t \in EnvSamples(k) : ExportEnv(k, t)
    \/ \E n \in 1..MaxPending : StoreBehind(n)
    \/ \E n \in 1..MaxPending : StoreAhead(n)
    \/ init
    \/ main
    \/ initConfig_require
    \/ initConfig_migrationsUp
    \/ initConfig_migrationsDown
    \/ initConfig_setValues
    \/ initConfig_logLevel
    \/ initConfig_validateTLS
    \/ initConfig_logFile
    \/ initConfig_tlsPair
    \/ initConfig_friendbotURL
    \/ initConfig_assemble
    \/ initConfig_dump

Spec == Init /\ [][Next]_vars

\* ----------------------------------------------------------------- claims

\* initConfig has been entered (viper is set up and the flags are parsed).
InConfig == pc \notin {"shell", "main"}

Terminated == pc = "exited"

\* Some required option has an empty effective value.
RequiredEmpty ==
    \E i \in OptIndex : configOpts[i].required /\ GetString(configOpts[i].name) = <<>>

MigrationPending == pendingUp > 0 \/ pendingDown > 0

SchemaKinds == {"schema-up", "schema-down"}

ValueKinds == {"url", "log-level", "log-file", "panic", "tls-both", "tls-key", "tls-cert"}

\* C2: with no migration pending, every required option non-empty, every
\* resolver succeeding and the TLS pair not half-configured, initConfig
\* returns without terminating the process.
C2_ValidConfigReturns ==
    (InConfig /\ ~MigrationPending /\ ~RequiredEmpty /\ Terminated)
        => diag.kind \in ValueKinds

\* C3: with a migration pending in either direction the run never gets
\* past the gate: no resolver is entered, c and config keep their zero
\* values, and a terminated process has a non-zero exit status.
C3_NoResolutionWhenPending ==
    (InConfig /\ MigrationPending)
        => /\ pc \in {"require", "migrationsUp", "migrationsDown", "exited"}
           /\ resolved = 0
           /\ c = ZeroConfig
           /\ config = ZeroConfig
           /\ Terminated => exitCode # 0

C3_Witness ==
    /\ Terminated
    /\ pendingUp = 0
    /\ pendingDown > 0
    /\ diag.kind = "schema-down"
    /\ diag.count = pendingDown

\* The place of descriptor k in the table.
IndexOf(k) == CHOOSE i \in OptIndex : configOpts[i].name = k

\* The statements of initConfig that follow validateTLS(tlsProvided).
AfterValidator == {"logFile", "tlsPair", "friendbotURL", "assemble", "dump"}

\* validateTLS(tlsProvided) has been evaluated.
ValidatorActed ==
    \/ pc \in AfterValidator
    \/ Terminated /\ diag.at \in AfterValidator \cup {"validateTLS"}

\* config has been assembled.
Assembled == pc = "dump" \/ (Terminated /\ diag.at = "dump")

\* Exactly one of tls-cert and tls-key has a non-empty value.
HalfTLS == (GetString("tls-cert") = <<>>) # (GetString("tls-key") = <<>>)

TLSKinds == {"tls-both", "tls-key", "tls-cert"}

\* C4: a run that gets to the cross-field validator terminates there with a
\* TLS diagnostic exactly when one of tls-cert, tls-key is non-empty and the
\* other empty; no TLS diagnostic is written in any other case, and then
\* both values stand unchanged in c and, once assembled, in config.
C4_TLSPairing ==
    /\ ValidatorActed =>
          (HalfTLS <=> (Terminated /\ diag.kind \in TLSKinds /\ diag.at = "validateTLS"))
    /\ (Terminated /\ diag.kind \in TLSKinds) => HalfTLS
    /\ (ValidatorActed /\ ~HalfTLS) =>
          /\ c.TLSCert = GetString("tls-cert")
          /\ c.TLSKey = GetString("tls-key")
    /\ Assembled =>
          /\ config.TLSCert = GetString("tls-cert")
          /\ config.TLSKey = GetString("tls-key")

C4_Witness ==
    /\ Terminated
    /\ diag.kind = "tls-both"
    /\ GetString("tls-cert") = T_y
    /\ GetString("tls-key") = <<>>

\* C5: once init() has run, every descriptor's name is bound to its
\* environment alias, declared or derived, so that a value given only
\* through the alias is the option's effective value.
C5_EveryAliasBound ==
    pc # "shell" =>
        \A i \in OptIndex :
            LET co == configOpts[i] IN
            /\ bindings[co.name] = <<EnvAlias(co)>>
            /\ (flags[co.name] = <<>> /\ env[EnvAlias(co)] \notin {<<>>, << <<>> >>})
                  => GetString(co.name) = env[EnvAlias(co)][1]

UntouchedLogger == [Level |-> <<>>, Out |-> <<>>]

\* C6: when a required option has an empty effective value, the run ends in
\* the required-option check, naming such an option and its environment
\* alias, before any resolver is entered: c, the logger and tlsProvided are
\* as they were.  The diagnostic never names an option that is not required.
C6_RequiredValidation ==
    /\ (InConfig /\ RequiredEmpty) =>
          /\ pc \in {"require", "exited"}
          /\ resolved = 0
          /\ c = ZeroConfig
          /\ logger = UntouchedLogger
          /\ tlsProvided = 0
          /\ Terminated =>
                /\ diag.kind = "missing-required"
                /\ diag.at = "require"
                /\ exitCode # 0
                /\ \E i \in OptIndex :
                      /\ configOpts[i].required
                      /\ GetString(configOpts[i].name) = <<>>
                      /\ diag.name = configOpts[i].name
                      /\ diag.envVar = EnvAlias(configOpts[i])
    /\ (Terminated /\ diag.kind = "missing-required") =>
          /\ Desc(diag.name).required
          /\ GetString(diag.name) = <<>>

C6_Witness ==
    /\ Terminated
    /\ diag.kind = "missing-required"
    /\ diag.name = "network-passphrase"
    /\ diag.envVar = "NETWORK_PASSPHRASE"
    /\ flags["network-passphrase"] = << <<>> >>

\* Neither a flag nor an environment value is given for the descriptor.
Unsupplied(co) == flags[co.name] = <<>> /\ env[EnvAlias(co)] = <<>>

\* The descriptor's default as a value of its destination's type.
CoercedDefault(co) ==
    CASE co.customSetValue = "setDuration" -> [seconds |-> co.flagDefault]
      [] co.customSetValue = "setRateLimit" ->
            IF co.flagDefault = 0 THEN <<>>
            ELSE <<[MaxRate |-> [count |-> co.flagDefault, per |-> "hour"],
                    MaxBurst |-> 100]>>
      [] co.customSetValue = "setURL" ->
            IF co.flagDefault = <<>> THEN <<>>
            ELSE <<urlParse(co.flagDefault).url>>
      [] co.customSetValue = "setLogLevel" -> ParseLevel(co.flagDefault).level
      [] OTHER -> co.flagDefault

\* C7: for every descriptor given neither a flag nor an environment value,
\* the destination holds the type-coerced default once the descriptor's
\* resolver has run; a required descriptor with an empty default instead
\* makes the run end with the missing-required diagnostic.
C7_DefaultOnly ==
    /\ \A i \in OptIndex :
          (Unsupplied(configOpts[i]) /\ resolved >= i)
              => c[configOpts[i].configKey] = CoercedDefault(configOpts[i])
    /\ (InConfig /\ \E i \in OptIndex :
                       /\ configOpts[i].required
                       /\ configOpts[i].flagDefault = <<>>
                       /\ Unsupplied(configOpts[i]))
          => /\ pc \in {"require", "exited"}
             /\ Terminated => diag.kind = "missing-required"

C7_Witness ==
    /\ pc = "dump"
    /\ \A i \in OptIndex : configOpts[i].name \notin BaselineFlags => Unsupplied(configOpts[i])
    /\ c.Port = 8000
    /\ c.MaxPathLength = 4
    /\ c.ConnectionTimeout = [seconds |-> 55]
    /\ c.LogLevel = 4
    /\ c.RateLimit # <<>>

\* C8: the unsigned options are range-checked: the value stored for each is
\* the integer that was parsed, so a negative one is never stored as a
\* large unsigned number.
C8_UnsignedRangeChecked ==
    \A i \in OptIndex :
        (configOpts[i].type = "uint" /\ resolved >= i)
            => c[configOpts[i].configKey] = GetInt(configOpts[i].name)

\* The rate-limit policy for a per-hour-rate-limit of n.
PolicyFor(n) ==
    IF n = 0 THEN <<>>
    ELSE <<[MaxRate |-> [count |-> n, per |-> "hour"], MaxBurst |-> 100]>>

\* C9: a per-hour-rate-limit of 0 leaves the policy nil; any other n gives
\* the policy of n per hour with a burst of exactly 100, in c once the
\* resolver has run and in config once it is assembled.
C9_RateLimit ==
    /\ resolved >= IndexOf("per-hour-rate-limit")
          => c.RateLimit = PolicyFor(GetInt("per-hour-rate-limit"))
    /\ Assembled => config.RateLimit = PolicyFor(GetInt("per-hour-rate-limit"))

C9_Witness ==
    /\ pc = "dump"
    /\ GetInt("per-hour-rate-limit") = 7
    /\ c.RateLimit = <<[MaxRate |-> [count |-> 7, per |-> "hour"], MaxBurst |-> 100]>>
    /\ config.RateLimit = c.RateLimit

\* The friendbot-url resolver has been entered.
URLResolverActed == resolved >= IndexOf("friendbot-url")

\* The run ended inside the friendbot-url resolver.
DiedInURLResolver ==
    Terminated /\ diag.at = "setValues" /\ resolved = IndexOf("friendbot-url")

\* C10: once the friendbot-url resolver has run: an empty value raised no
\* error and left the destination nil; a value that parses is stored as the
\* parsed URL; a value that does not parse ended the run with a diagnostic
\* holding that value, the destination not written.
C10_URLResolver ==
    LET urlString == GetString("friendbot-url") IN
    URLResolverActed =>
        /\ urlString = <<>> => (c.FriendbotURL = <<>> /\ ~DiedInURLResolver)
        /\ (urlString # <<>> /\ urlParse(urlString).ok)
              => (c.FriendbotURL = <<urlParse(urlString).url>> /\ ~DiedInURLResolver)
        /\ (urlString # <<>> /\ ~urlParse(urlString).ok)
              => /\ DiedInURLResolver
                 /\ diag.kind = "url"
                 /\ diag.text = urlString
                 /\ c.FriendbotURL = <<>>

\* The fields of horizon.Config.
ConfigFields == DOMAIN ConfigFieldType

\* C11: in every run that reaches assembly, each of the 25 fields of config
\* equals the value the resolvers left in the same field of c: the
\* assembler introduces no value that differs from a resolved destination.
C11_AssemblyAggregates ==
    Assembled =>
        /\ resolved = Len(configOpts)
        /\ \A f \in ConfigFields : config[f] = c[f]

C11_Witness ==
    /\ pc = "dump"
    /\ Cardinality(ConfigFields) = 25
    /\ config = c
    /\ c.SSEUpdateFrequency = [seconds |-> 7]
    /\ c.LogFile = T_logpath
    /\ c.RateLimit # <<>>
    /\ c.DatabaseURL = T_y

====
